---- MODULE Spec2Model ----
(***************************************************************************)
(* Fire propagation on a grid of cells (Kartmaan/fire-simulation).         *)
(*                                                                         *)
(* Fixed-point units used for the program's floats:                        *)
(*   temperature      1/1000 degree      (20.0 -> 20000)                   *)
(*   fuel level       1e-7               (100.0 -> 1000000000)             *)
(*   oxygen rate      1e-6               (21.0 -> 21000000)                *)
(*   delta_time       milliseconds       (0.02 -> 20)                      *)
(*   conductivity, capacity   1/100      burn rate, heat, humidity  1/10   *)
(*   heat transfer    1e-5                                                 *)
(***************************************************************************)
EXTENDS Integers, FiniteSets, Sequences, TLC

\* ------------------------------------------------------------------------
\* Program constants
\* ------------------------------------------------------------------------
MAX_TEMP == 2138000
MIN_TEMP == 20000
MANUAL_IGNITION_DURATION == 15000
DELTA_TIME_CAP == 20
INITIAL_FUEL == 1000000000
INITIAL_TEMPERATURE == 20000
INITIAL_OXYGEN == 21000000
MIN_OXYGEN_RATE == 5000000
FUEL_EPSILON == 1
MIN_IGNITION_TEMP == 100000
FPS_FRAME_MS == 33

\* ------------------------------------------------------------------------
\* window_option: window and cell sizes
\* ------------------------------------------------------------------------
\* The window of the model, in pixels (in the program: 0.66 of the user's screen).
WIN_WIDTH == 50
WIN_HEIGHT == 26

CELL_WIDTH_INIT == 10
CELL_HEIGHT_INIT == 10
MARGIN == 2

cells_in_row_init == WIN_WIDTH \div (CELL_WIDTH_INIT + MARGIN)
cells_in_col_init == WIN_HEIGHT \div (CELL_HEIGHT_INIT + MARGIN)
grid_width_init == cells_in_row_init * (CELL_WIDTH_INIT + MARGIN) + MARGIN
grid_height_init == cells_in_col_init * (CELL_HEIGHT_INIT + MARGIN) + MARGIN

\* int(CELL_INIT * min(width_ratio, height_ratio)), at least 1; the ratios are
\* WIN / grid_init where the grid is too large and 1.0 elsewhere.
ScaledCell(cell_init) ==
    LET wn == IF grid_width_init > WIN_WIDTH THEN WIN_WIDTH ELSE 1
        wd == IF grid_width_init > WIN_WIDTH THEN grid_width_init ELSE 1
        hn == IF grid_height_init > WIN_HEIGHT THEN WIN_HEIGHT ELSE 1
        hd == IF grid_height_init > WIN_HEIGHT THEN grid_height_init ELSE 1
        scaled == IF wn * hd <= hn * wd THEN (cell_init * wn) \div wd
                                         ELSE (cell_init * hn) \div hd
    IN  IF scaled < 1 THEN 1 ELSE scaled

CELL_WIDTH ==
    IF grid_width_init > WIN_WIDTH \/ grid_height_init > WIN_HEIGHT
    THEN ScaledCell(CELL_WIDTH_INIT) ELSE CELL_WIDTH_INIT
CELL_HEIGHT ==
    IF grid_width_init > WIN_WIDTH \/ grid_height_init > WIN_HEIGHT
    THEN ScaledCell(CELL_HEIGHT_INIT) ELSE CELL_HEIGHT_INIT

cells_in_row == WIN_WIDTH \div (CELL_WIDTH + MARGIN)
cells_in_col == WIN_HEIGHT \div (CELL_HEIGHT + MARGIN)

\* ------------------------------------------------------------------------
\* Material registry
\* ------------------------------------------------------------------------
MaterialNames == {"WOOD", "GRASS", "FUEL", "WATER"}

Material ==
    [ WOOD  |-> [ignition_temp |-> 350, combustion_heat |-> 170, burn_rate |-> 4,
                 thermal_conductivity |-> 25, thermal_capacity |-> 145,
                 density |-> 745, humidity |-> 120],
      GRASS |-> [ignition_temp |-> 300, combustion_heat |-> 155, burn_rate |-> 5,
                 thermal_conductivity |-> 7, thermal_capacity |-> 220,
                 density |-> 100, humidity |-> 700],
      FUEL  |-> [ignition_temp |-> 250, combustion_heat |-> 430, burn_rate |-> 8,
                 thermal_conductivity |-> 14, thermal_capacity |-> 190,
                 density |-> 845, humidity |-> 1],
      WATER |-> [ignition_temp |-> 4276, combustion_heat |-> 0, burn_rate |-> 0,
                 thermal_conductivity |-> 60, thermal_capacity |-> 418,
                 density |-> 1000, humidity |-> 1000] ]

\* ------------------------------------------------------------------------
\* Arithmetic helpers
\* ------------------------------------------------------------------------
Min(a, b) == IF a <= b THEN a ELSE b
Max(a, b) == IF a >= b THEN a ELSE b
Abs(a) == IF a >= 0 THEN a ELSE 0 - a
Sgn(a) == IF a > 0 THEN 1 ELSE IF a < 0 THEN 0 - 1 ELSE 0

\* floor(a * b / c) for a, b >= 0 and c > 0, without a 32-bit overflow as
\* long as a * (b \div c) and c * c stay below 2^31.
MulDiv(a, b, c) ==
    LET bq == b \div c
        br == b % c
        aq == a \div c
        ar == a % c
    IN  a * bq + aq * br + ((ar * br) \div c)

\* ------------------------------------------------------------------------
\* Grids
\* ------------------------------------------------------------------------
\* A grid is a sequence of rows, each a sequence of values (a 2-D array).
NRows(g) == Len(g)
NCols(g) == IF Len(g) = 0 THEN 0 ELSE Len(g[1])
Indices(g) == {rc \in (1..NRows(g)) \X (1..NCols(g)) : TRUE}
Property(material_grid, name) ==
    [r \in 1..NRows(material_grid) |->
        [c \in 1..NCols(material_grid) |-> Material[material_grid[r][c]][name]]]

\* ------------------------------------------------------------------------
\* physics.heat_conduction
\* ------------------------------------------------------------------------
\* The integer square root of n, searched between lo and hi.
RECURSIVE SqrtBetween(_, _, _)
SqrtBetween(n, lo, hi) ==
    IF lo >= hi THEN lo
    ELSE LET mid == (lo + hi + 1) \div 2
         IN  IF mid * mid <= n THEN SqrtBetween(n, mid, hi) ELSE SqrtBetween(n, lo, mid - 1)

\* distance = sqrt(CELL_WIDTH ** 2 + CELL_HEIGHT ** 2), in 1/1000 (rounded down)
DISTANCE ==
    SqrtBetween((CELL_WIDTH * CELL_WIDTH + CELL_HEIGHT * CELL_HEIGHT) * 1000000, 0, 20000)

\* contact_area / distance, in 1/1000: 100 / 14.142 = 7.071 for 10 x 10 cells
AREA_OVER_DISTANCE == (CELL_WIDTH * CELL_HEIGHT * 1000000) \div DISTANCE

\* The sign of the temperature difference lost: heat always flows to the right
\* and downwards.
HeatTransfer_Unsigned(delta, ksum, delta_time) ==
    LET coef == ksum * delta_time * AREA_OVER_DISTANCE
        t1 == Abs(delta) \div 1000
        t0 == Abs(delta) % 1000
        c1 == coef \div 2000
        c0 == coef % 2000
    IN  t1 * c1 + ((t1 * c0 + 2 * t0 * c1 + ((t0 * c0) \div 1000)) \div 2000)

\* k_avg * delta_temp * contact_area / distance * delta_time for one pair of
\* neighbours, in 1e-5; ksum is the sum of the two conductivities (k_avg * 2).
\* |delta| * coef / 2000000 is computed exactly on the halves of the operands.
HeatTransfer(delta, ksum, delta_time) ==
    LET coef == ksum * delta_time * AREA_OVER_DISTANCE
        t1 == Abs(delta) \div 1000
        t0 == Abs(delta) % 1000
        c1 == coef \div 2000
        c0 == coef % 2000
    IN  Sgn(delta) * (t1 * c1 + ((t1 * c0 + 2 * t0 * c1 + ((t0 * c0) \div 1000)) \div 2000))

\* heat / capacity, rounded towards zero: a temperature change in 1/1000 degree.
TempChange(heat, capacity) == Sgn(heat) * (Abs(heat) \div capacity)

\* np.maximum written for np.clip: the upper limit is lost.
Clip_LowerOnly(x, lo, hi) == IF x < lo THEN lo ELSE x

Clip(x, lo, hi) == IF x < lo THEN lo ELSE IF x > hi THEN hi ELSE x

\* The mean of the two temperatures taken for their difference.
heat_transfer_right_OfMean(temp_grid, conductivity_grid, delta_time, r, c) ==
    HeatTransfer((temp_grid[r][c] + temp_grid[r][c + 1]) \div 2,
                 conductivity_grid[r][c] + conductivity_grid[r][c + 1], delta_time)

\* heat_transfer_right[r][c] and heat_transfer_down[r][c], from the temperatures at entry
heat_transfer_right(temp_grid, conductivity_grid, delta_time, r, c) ==
    HeatTransfer(temp_grid[r][c] - temp_grid[r][c + 1],
                 conductivity_grid[r][c] + conductivity_grid[r][c + 1], delta_time)

heat_transfer_down(temp_grid, conductivity_grid, delta_time, r, c) ==
    HeatTransfer(temp_grid[r][c] - temp_grid[r + 1][c],
                 conductivity_grid[r][c] + conductivity_grid[r + 1][c], delta_time)

\* The two slice updates of the horizontal pairs applied to grid, with the
\* heat transfers taken from the temperatures at entry.
HorizontalUpdates(grid, temp_grid, conductivity_grid, capacity_grid, delta_time) ==
    [r \in 1..NRows(grid) |-> [c \in 1..NCols(grid) |->
        grid[r][c]
        - (IF c < NCols(grid)
           THEN TempChange(heat_transfer_right(temp_grid, conductivity_grid, delta_time, r, c),
                           capacity_grid[r][c])
           ELSE 0)
        + (IF c > 1
           THEN TempChange(heat_transfer_right(temp_grid, conductivity_grid, delta_time, r, c - 1),
                           capacity_grid[r][c])
           ELSE 0)]]

\* The two slice updates of the vertical pairs, likewise.
VerticalUpdates(grid, temp_grid, conductivity_grid, capacity_grid, delta_time) ==
    [r \in 1..NRows(grid) |-> [c \in 1..NCols(grid) |->
        grid[r][c]
        - (IF r < NRows(grid)
           THEN TempChange(heat_transfer_down(temp_grid, conductivity_grid, delta_time, r, c),
                           capacity_grid[r][c])
           ELSE 0)
        + (IF r > 1
           THEN TempChange(heat_transfer_down(temp_grid, conductivity_grid, delta_time, r - 1, c),
                           capacity_grid[r][c])
           ELSE 0)]]

\* The vertical heat transfers taken from the temperatures the horizontal
\* updates have left, not from those at entry.
ConductionUnclamped_Progressive(temp_grid, conductivity_grid, capacity_grid, delta_time) ==
    VerticalUpdates(
        HorizontalUpdates(temp_grid, temp_grid, conductivity_grid, capacity_grid, delta_time),
        HorizontalUpdates(temp_grid, temp_grid, conductivity_grid, capacity_grid, delta_time),
        conductivity_grid, capacity_grid, delta_time)

\* The cell that receives the heat of a pair divides it by the capacity of
\* the cell that gives it.
ConductionUnclamped_GiverCapacity(temp_grid, conductivity_grid, capacity_grid, delta_time) ==
    [r \in 1..NRows(temp_grid) |-> [c \in 1..NCols(temp_grid) |->
        temp_grid[r][c]
        - (IF c < NCols(temp_grid)
           THEN TempChange(heat_transfer_right(temp_grid, conductivity_grid, delta_time, r, c),
                           capacity_grid[r][c])
           ELSE 0)
        + (IF c > 1
           THEN TempChange(heat_transfer_right(temp_grid, conductivity_grid, delta_time, r, c - 1),
                           capacity_grid[r][c - 1])
           ELSE 0)
        - (IF r < NRows(temp_grid)
           THEN TempChange(heat_transfer_down(temp_grid, conductivity_grid, delta_time, r, c),
                           capacity_grid[r][c])
           ELSE 0)
        + (IF r > 1
           THEN TempChange(heat_transfer_down(temp_grid, conductivity_grid, delta_time, r - 1, c),
                           capacity_grid[r - 1][c])
           ELSE 0)]]

\* The four in-place slice updates, as what they add up to in each cell: the
\* cell on the left loses, the cell on the right gains, the cell above loses,
\* the cell below gains.
ConductionUnclamped(temp_grid, conductivity_grid, capacity_grid, delta_time) ==
    [r \in 1..NRows(temp_grid) |-> [c \in 1..NCols(temp_grid) |->
        temp_grid[r][c]
        - (IF c < NCols(temp_grid)
           THEN TempChange(heat_transfer_right(temp_grid, conductivity_grid, delta_time, r, c),
                           capacity_grid[r][c])
           ELSE 0)
        + (IF c > 1
           THEN TempChange(heat_transfer_right(temp_grid, conductivity_grid, delta_time, r, c - 1),
                           capacity_grid[r][c])
           ELSE 0)
        - (IF r < NRows(temp_grid)
           THEN TempChange(heat_transfer_down(temp_grid, conductivity_grid, delta_time, r, c),
                           capacity_grid[r][c])
           ELSE 0)
        + (IF r > 1
           THEN TempChange(heat_transfer_down(temp_grid, conductivity_grid, delta_time, r - 1, c),
                           capacity_grid[r][c])
           ELSE 0)]]

heat_conduction(temp_grid, conductivity_grid, capacity_grid, delta_time) ==
    LET updated == ConductionUnclamped(temp_grid, conductivity_grid, capacity_grid, delta_time)
    IN  [r \in 1..NRows(temp_grid) |-> [c \in 1..NCols(temp_grid) |->
            Clip(updated[r][c], MIN_TEMP, MAX_TEMP)]]

\* ------------------------------------------------------------------------
\* physics.update_ignition
\* ------------------------------------------------------------------------
\* Twice the effective ignition temperature, in 1/1000 degree:
\* 2 * 1000 * max(ignition_temp * (1 + humidity / 200), 100.0), ignition_temp
\* in degrees and humidity in 1/10 percent.
\* np.minimum written for np.maximum.
EffectiveIgnitionTemp2_Minimum(ignition_temp, humidity) ==
    Min(ignition_temp * (2000 + humidity), 2 * MIN_IGNITION_TEMP)

EffectiveIgnitionTemp2(ignition_temp, humidity) ==
    Max(ignition_temp * (2000 + humidity), 2 * MIN_IGNITION_TEMP)

\* > written for >=.
Ignites_Strictly(temperature, ignition_temp, humidity, is_burned) ==
    (2 * temperature > EffectiveIgnitionTemp2(ignition_temp, humidity)) /\ ~is_burned

Ignites(temperature, ignition_temp, humidity, is_burned) ==
    (2 * temperature >= EffectiveIgnitionTemp2(ignition_temp, humidity)) /\ ~is_burned

update_ignition(temperature_grid, ignition_temp_grid, humidity_grid, burned_grid) ==
    [r \in 1..NRows(temperature_grid) |-> [c \in 1..NCols(temperature_grid) |->
        Ignites(temperature_grid[r][c], ignition_temp_grid[r][c], humidity_grid[r][c],
                burned_grid[r][c])]]

\* ------------------------------------------------------------------------
\* physics.update_combustion, cell by cell
\* ------------------------------------------------------------------------
\* The consumption with its sign lost.
FuelConsumed_Negated(burn_rate, delta_time, burning) ==
    IF burning THEN 0 - burn_rate * delta_time * 1000 ELSE 0

\* burn_rate * delta_time * is_burning, in 1e-7
FuelConsumed(burn_rate, delta_time, burning) ==
    IF burning THEN burn_rate * delta_time * 1000 ELSE 0

\* The heat generated scaled by 1e6 instead of 1e7.
DeltaTemp_1e6(burn_rate, delta_time, burning, combustion_heat, density, thermal_capacity) ==
    IF burning
    THEN MulDiv(burn_rate * delta_time * combustion_heat, 1000, density) \div thermal_capacity
    ELSE 0

\* heat_generated / (cell_mass * thermal_capacity * 1e3), in 1/1000 degree
DeltaTemp(burn_rate, delta_time, burning, combustion_heat, density, thermal_capacity) ==
    IF burning
    THEN MulDiv(burn_rate * delta_time * combustion_heat, 10000, density) \div thermal_capacity
    ELSE 0

\* oxygen_consumed subtracted as it is, not multiplied by delta_time.
OxygenConsumed_Once(burn_rate, delta_time, burning) ==
    IF burning THEN burn_rate * delta_time * 1000 ELSE 0

\* oxygen_consumed * delta_time = fuel_consumed * 10.0 * delta_time, in 1e-6
OxygenConsumed(burn_rate, delta_time, burning) ==
    IF burning THEN burn_rate * delta_time * delta_time ELSE 0

\* The oxygen test left out.
StillBurning_NoOxygenTest(burning, oxygen, fuel) ==
    burning /\ fuel > 0

StillBurning(burning, oxygen, fuel) ==
    burning /\ oxygen > MIN_OXYGEN_RATE /\ fuel > 0

\* The fuel of a cell that does not burn compared with 0, not with 1e-7.
BurnedStatus_NoEpsilon(burning, oxygen, fuel) ==
    \/ fuel <= 0
    \/ (~burning /\ fuel <= 0)
    \/ (~burning /\ oxygen <= MIN_OXYGEN_RATE)

\* The burned mask never set.
BurnedStatus_Never(burning, oxygen, fuel) == FALSE

\* A strict comparison of the oxygen with its minimum.
BurnedStatus_StrictOxygen(burning, oxygen, fuel) ==
    \/ fuel <= 0
    \/ (~burning /\ fuel <= FUEL_EPSILON)
    \/ (~burning /\ oxygen < MIN_OXYGEN_RATE)

\* | written for & in the last condition.
BurnedStatus_OrOxygen(burning, oxygen, fuel) ==
    \/ fuel <= 0
    \/ (~burning /\ fuel <= FUEL_EPSILON)
    \/ (~burning \/ oxygen <= MIN_OXYGEN_RATE)

BurnedStatus(burning, oxygen, fuel) ==
    \/ fuel <= 0
    \/ (~burning /\ fuel <= FUEL_EPSILON)
    \/ (~burning /\ oxygen <= MIN_OXYGEN_RATE)

\* The heat and the oxygen taken in proportion to the fuel the cell had left,
\* when that is less than burn_rate * delta_time.
CombustCell_FromFuelRemoved(temperature, fuel, oxygen, burning, burn_rate, combustion_heat, density, thermal_capacity, delta_time) ==
    LET consumed == IF burning THEN burn_rate * delta_time * 1000 ELSE 0
        removed == Min(Max(fuel, 0), consumed)
        fuel_1 == Max(fuel - consumed, 0)
        heating == IF burning
                   THEN MulDiv(burn_rate * delta_time * combustion_heat, 10000, density)
                            \div thermal_capacity
                   ELSE 0
        temp_1 == Min(temperature + (IF consumed = 0 THEN 0 ELSE MulDiv(heating, removed, consumed)),
                      MAX_TEMP)
        oxygen_1 == Max(oxygen - (IF consumed = 0 THEN 0
                                  ELSE MulDiv(burn_rate * delta_time * delta_time, removed, consumed)),
                        0)
        burning_1 == burning /\ oxygen_1 > MIN_OXYGEN_RATE /\ fuel_1 > 0
        burned_1 == \/ fuel_1 <= 0
                    \/ (~burning_1 /\ fuel_1 <= FUEL_EPSILON)
                    \/ (~burning_1 /\ oxygen_1 <= MIN_OXYGEN_RATE)
    IN  [temperature |-> temp_1,
         fuel_level |-> IF burned_1 THEN 0 ELSE fuel_1,
         oxygen_rate |-> oxygen_1,
         is_burning |-> burning_1,
         burned |-> burned_1]

\* The final np.where left out: a burned cell keeps what fuel it has.
CombustCell_KeepsFuel(temperature, fuel, oxygen, burning, burn_rate, combustion_heat, density, thermal_capacity, delta_time) ==
    LET fuel_1 == Max(fuel - FuelConsumed(burn_rate, delta_time, burning), 0)
        temp_1 == Min(temperature + DeltaTemp(burn_rate, delta_time, burning, combustion_heat,
                                              density, thermal_capacity), MAX_TEMP)
        oxygen_1 == Max(oxygen - OxygenConsumed(burn_rate, delta_time, burning), 0)
        burning_1 == StillBurning(burning, oxygen_1, fuel_1)
        burned_1 == BurnedStatus(burning_1, oxygen_1, fuel_1)
    IN  [temperature |-> temp_1,
         fuel_level |-> fuel_1,
         oxygen_rate |-> oxygen_1,
         is_burning |-> burning_1,
         burned |-> burned_1]

CombustCell(temperature, fuel, oxygen, burning, burn_rate, combustion_heat, density, thermal_capacity, delta_time) ==
    LET fuel_1 == Max(fuel - FuelConsumed(burn_rate, delta_time, burning), 0)
        temp_1 == Min(temperature + DeltaTemp(burn_rate, delta_time, burning, combustion_heat,
                                              density, thermal_capacity), MAX_TEMP)
        oxygen_1 == Max(oxygen - OxygenConsumed(burn_rate, delta_time, burning), 0)
        burning_1 == StillBurning(burning, oxygen_1, fuel_1)
        burned_1 == BurnedStatus(burning_1, oxygen_1, fuel_1)
    IN  [temperature |-> temp_1,
         fuel_level |-> IF burned_1 THEN 0 ELSE fuel_1,
         oxygen_rate |-> oxygen_1,
         is_burning |-> burning_1,
         burned |-> burned_1]

\* The five returned arrays, as one grid of records.
update_combustion(temperature_grid, fuel_grid, oxygen_grid, is_burning_grid, burn_rate_grid, combustion_heat_grid, density_grid, thermal_capacity_grid, delta_time) ==
    [r \in 1..NRows(temperature_grid) |-> [c \in 1..NCols(temperature_grid) |->
        CombustCell(temperature_grid[r][c], fuel_grid[r][c], oxygen_grid[r][c],
                    is_burning_grid[r][c], burn_rate_grid[r][c], combustion_heat_grid[r][c],
                    density_grid[r][c], thermal_capacity_grid[r][c], delta_time)]]

\* What the arrays handed to update_combustion hold when it returns: the
\* in-place statements (fuel_grid -= ..., temperature_grid += ...,
\* oxygen_grid -= ..., is_burning_grid &= ...) write to them, the later
\* np.maximum, np.minimum and np.where bind new arrays.
\* The function working on copies of its arrays.
CombustInPlaceCell_Copies(temperature, fuel, oxygen, burning, burn_rate, combustion_heat, density, thermal_capacity, delta_time) ==
    [temperature |-> temperature, fuel_level |-> fuel, oxygen_rate |-> oxygen,
     is_burning |-> burning]

CombustInPlaceCell(temperature, fuel, oxygen, burning, burn_rate, combustion_heat, density, thermal_capacity, delta_time) ==
    [temperature |-> temperature + DeltaTemp(burn_rate, delta_time, burning, combustion_heat,
                                             density, thermal_capacity),
     fuel_level |-> fuel - FuelConsumed(burn_rate, delta_time, burning),
     oxygen_rate |-> oxygen - OxygenConsumed(burn_rate, delta_time, burning),
     is_burning |-> StillBurning(burning,
                                 Max(oxygen - OxygenConsumed(burn_rate, delta_time, burning), 0),
                                 Max(fuel - FuelConsumed(burn_rate, delta_time, burning), 0))]

update_combustion_arguments(temperature_grid, fuel_grid, oxygen_grid, is_burning_grid, burn_rate_grid, combustion_heat_grid, density_grid, thermal_capacity_grid, delta_time) ==
    [r \in 1..NRows(temperature_grid) |-> [c \in 1..NCols(temperature_grid) |->
        CombustInPlaceCell(temperature_grid[r][c], fuel_grid[r][c], oxygen_grid[r][c],
                           is_burning_grid[r][c], burn_rate_grid[r][c], combustion_heat_grid[r][c],
                           density_grid[r][c], thermal_capacity_grid[r][c], delta_time)]]

Field(record_grid, name) ==
    [r \in 1..NRows(record_grid) |-> [c \in 1..NCols(record_grid) |-> record_grid[r][c][name]]]

\* ------------------------------------------------------------------------
\* Program state
\* ------------------------------------------------------------------------
VARIABLES
    material,       \* Cell.material of grid[row][col]
    temperature,    \* Cell.temperature
    fuel_level,     \* Cell.fuel_level
    oxygen_rate,    \* Cell.oxygen_rate
    is_burning,     \* Cell.is_burning
    burned,         \* Cell.burned
    manual_ignition_expiration_grid,
    ticks,          \* pygame.time.get_ticks(), milliseconds
    clock_time,     \* what the last clock.tick(fps) of line 73 returned, milliseconds
    error,          \* "none", or the exception that ended the program
    pc,             \* position of the main loop
    loop,           \* the module-level arrays and scalars of the main loop
    screen,         \* what Cell.draw last drew for each cell
    caption,        \* the status read-out of the window title
    call,           \* a call of a physics function on its own: arguments and result
    printed,        \* what the last print of a cell's info wrote (line 59)
    history         \* history variable: the frames run, the clicks handled and the
                    \* last of them, the Cell fields and the
                    \* expiration grid before the last frame, the grid handed to
                    \* heat_conduction, the masks update_ignition returned

cell_vars == <<temperature, fuel_level, oxygen_rate, is_burning, burned>>
vars == <<material, temperature, fuel_level, oxygen_rate, is_burning, burned,
          manual_ignition_expiration_grid, ticks, clock_time, error, pc, loop, screen,
          caption, call, printed, history>>

Full(R, C, v) == [r \in 1..R |-> [c \in 1..C |-> v]]
Count(bool_grid) == Cardinality({rc \in Indices(bool_grid) : bool_grid[rc[1]][rc[2]]})

\* ------------------------------------------------------------------------
\* Inputs of the model: cell materials, frame periods, click times
\* ------------------------------------------------------------------------
\* Material grids of the runs (the program draws each cell's material at random).
\* WATER is in the registry of materials though Cell draws none: the grids with
\* WATER are those of a build whose cells may be of any registered material.
Layouts ==
    { << <<"FUEL", "GRASS", "FUEL", "WOOD">>, <<"WOOD", "WOOD", "WOOD", "WOOD">> >>,
      << <<"FUEL", "FUEL", "FUEL", "FUEL">>, <<"FUEL", "FUEL", "FUEL", "FUEL">> >>,
      << <<"GRASS", "GRASS", "WOOD", "GRASS">>, <<"FUEL", "GRASS", "GRASS", "WOOD">> >>,
      << <<"GRASS", "WOOD", "WATER", "WATER">>, <<"WATER", "FUEL", "WATER", "GRASS">> >> }

\* What clock.tick(fps) returns in a run, milliseconds: a steady frame period,
\* that of 30 frames per second or one of a stalling machine.
FramePeriods == {FPS_FRAME_MS, 5000, 5005}

\* The values of get_ticks() at which a mouse click may arrive.
ClickTimes == {0, 180180}

\* The cursor positions <<x, y>> of the clicks, in pixels of the window: two
\* over cells, one over the strip right of the last column and one over the
\* strip below the last row.
ClickPositions == {<<17, 17>>, <<29, 5>>, <<WIN_WIDTH - 1, 5>>, <<5, WIN_HEIGHT - 1>>}

\* The clock value after which the runs stop.
MaxTicks == 195200

\* ------------------------------------------------------------------------
\* fire_propagation: construction
\* ------------------------------------------------------------------------
InitialLoop(R, C) ==
    [delta_time |-> 0, now |-> 0,
     mask |-> Full(R, C, FALSE),
     temp_grid |-> Full(R, C, INITIAL_TEMPERATURE),
     fuel_grid |-> Full(R, C, INITIAL_FUEL),
     oxygen_grid |-> Full(R, C, INITIAL_OXYGEN),
     is_burning_grid |-> Full(R, C, FALSE),
     burned_grid |-> Full(R, C, FALSE),
     written |-> 0]

InitialHistory(R, C) ==
    [frames |-> 0,
     clicks |-> 0,
     click |-> [button |-> "none", pos |-> <<0, 0>>],
     steps |-> <<>>,
     ignited |-> Full(R, C, FALSE),
     ever_ignited |-> Full(R, C, FALSE),
     ever_burning |-> Full(R, C, FALSE),
     handed |-> Full(R, C, INITIAL_TEMPERATURE),
     expiration |-> Full(R, C, 0),
     temperature |-> Full(R, C, INITIAL_TEMPERATURE),
     fuel_level |-> Full(R, C, INITIAL_FUEL),
     oxygen_rate |-> Full(R, C, INITIAL_OXYGEN),
     is_burning |-> Full(R, C, FALSE),
     burned |-> Full(R, C, FALSE)]

Constructed ==
    /\ material \in {m \in Layouts : NRows(m) = cells_in_col /\ NCols(m) = cells_in_row}
    /\ temperature = Full(cells_in_col, cells_in_row, INITIAL_TEMPERATURE)
    /\ fuel_level = Full(cells_in_col, cells_in_row, INITIAL_FUEL)
    /\ oxygen_rate = Full(cells_in_col, cells_in_row, INITIAL_OXYGEN)
    /\ is_burning = Full(cells_in_col, cells_in_row, FALSE)
    /\ burned = Full(cells_in_col, cells_in_row, FALSE)
    /\ manual_ignition_expiration_grid = Full(cells_in_col, cells_in_row, 0)
    /\ ticks = 0
    /\ clock_time = 0
    /\ error = "none"
    /\ pc = "events"
    /\ loop = InitialLoop(cells_in_col, cells_in_row)
    /\ screen = Full(cells_in_col, cells_in_row, "blank")
    /\ caption = [burning |-> 0, burned |-> 0]
    /\ printed = <<>>
    /\ history = InitialHistory(cells_in_col, cells_in_row)

Init ==
    /\ Constructed
    /\ call = [fn |-> "none", returned |-> FALSE]

\* ------------------------------------------------------------------------
\* fire_propagation: mouse events
\* ------------------------------------------------------------------------
\* The grid coordinates (from 0) of a cursor position.
ClickColumn(pos) == pos[1] \div (CELL_WIDTH + MARGIN)
ClickRow(pos) == pos[2] \div (CELL_HEIGHT + MARGIN)

InGrid(row, column) == row < NRows(material) /\ column < NCols(material)

\* The history after a MOUSEBUTTONDOWN event at pos.
Clicked(button, pos) ==
    [history EXCEPT !.clicks = history.clicks + 1,
                    !.click = [button |-> button, pos |-> pos]]

\* Coordinates past the grid taken for those of the last row and column.
LeftClick_Clamped(pos) ==
    /\ error = "none"
    /\ pc = "events"
    /\ manual_ignition_expiration_grid' =
          [manual_ignition_expiration_grid EXCEPT
             ![Min(ClickRow(pos) + 1, NRows(material))][Min(ClickColumn(pos) + 1, NCols(material))] =
                 ticks + MANUAL_IGNITION_DURATION]
    /\ history' = Clicked("left", pos)
    /\ UNCHANGED <<material, temperature, fuel_level, oxygen_rate, is_burning, burned,
                   ticks, clock_time, error, pc, loop, screen, caption, call, printed>>

\* MOUSEBUTTONDOWN at pos with the left button pressed. grid[row][column]
\* raises IndexError outside the grid, before anything is written.
LeftClick(pos) ==
    /\ error = "none"
    /\ pc = "events"
    /\ IF InGrid(ClickRow(pos), ClickColumn(pos))
       THEN /\ manual_ignition_expiration_grid' =
                 [manual_ignition_expiration_grid EXCEPT
                    ![ClickRow(pos) + 1][ClickColumn(pos) + 1] =
                        ticks + MANUAL_IGNITION_DURATION]
            /\ error' = error
       ELSE /\ error' = "IndexError"
            /\ UNCHANGED manual_ignition_expiration_grid
    /\ history' = Clicked("left", pos)
    /\ UNCHANGED <<material, temperature, fuel_level, oxygen_rate, is_burning, burned,
                   ticks, clock_time, pc, loop, screen, caption, call, printed>>

\* The line printed for a cell (lines 59-61).
CellInfo(row, column) ==
    <<row, column, material[row + 1][column + 1], temperature[row + 1][column + 1],
      oxygen_rate[row + 1][column + 1], fuel_level[row + 1][column + 1]>>

\* MOUSEBUTTONDOWN at pos with the right button pressed. grid[row][column] is
\* read before the buttons are looked at, and raises IndexError outside the grid.
RightClick(pos) ==
    /\ error = "none"
    /\ pc = "events"
    /\ IF InGrid(ClickRow(pos), ClickColumn(pos))
       THEN /\ printed' = CellInfo(ClickRow(pos), ClickColumn(pos))
            /\ error' = error
       ELSE /\ error' = "IndexError"
            /\ UNCHANGED printed
    /\ history' = Clicked("right", pos)
    /\ UNCHANGED <<material, temperature, fuel_level, oxygen_rate, is_burning, burned,
                   manual_ignition_expiration_grid, ticks, clock_time, pc, loop, screen,
                   caption, call>>

\* ------------------------------------------------------------------------
\* fire_propagation: one iteration of the main loop, section by section
\* ------------------------------------------------------------------------
\* Line 74 left out: delta_time is what the clock returned.
Extract_Uncapped(elapsed) ==
    [loop EXCEPT !.delta_time = elapsed,
                 !.temp_grid = temperature,
                 !.fuel_grid = fuel_level,
                 !.oxygen_grid = oxygen_rate,
                 !.burned_grid = burned,
                 !.written = 0]

\* delta_time and the matrices of cell properties (lines 73-100)
Extract(elapsed) ==
    [loop EXCEPT !.delta_time = Min(elapsed, DELTA_TIME_CAP),
                 !.temp_grid = temperature,
                 !.fuel_grid = fuel_level,
                 !.oxygen_grid = oxygen_rate,
                 !.burned_grid = burned,
                 !.written = 0]

\* >= written for >: an entry still forces its cell at its expiration.
ForceOverlay_AtExpiration(l, now) ==
    LET mask == [r \in 1..NRows(l.temp_grid) |-> [c \in 1..NCols(l.temp_grid) |->
                    manual_ignition_expiration_grid[r][c] >= now]]
    IN  [l EXCEPT !.now = now,
                  !.mask = mask,
                  !.temp_grid = [r \in 1..NRows(l.temp_grid) |-> [c \in 1..NCols(l.temp_grid) |->
                                    IF mask[r][c] THEN MAX_TEMP ELSE l.temp_grid[r][c]]]]

\* MIN_TEMP written for MAX_TEMP: a live entry cools its cell to ambient.
ForceOverlay_ToMinTemp(l, now) ==
    LET mask == [r \in 1..NRows(l.temp_grid) |-> [c \in 1..NCols(l.temp_grid) |->
                    manual_ignition_expiration_grid[r][c] > now]]
    IN  [l EXCEPT !.now = now,
                  !.mask = mask,
                  !.temp_grid = [r \in 1..NRows(l.temp_grid) |-> [c \in 1..NCols(l.temp_grid) |->
                                    IF mask[r][c] THEN MIN_TEMP ELSE l.temp_grid[r][c]]]]

\* manual ignition continuity (lines 113-115)
ForceOverlay(l, now) ==
    LET mask == [r \in 1..NRows(l.temp_grid) |-> [c \in 1..NCols(l.temp_grid) |->
                    manual_ignition_expiration_grid[r][c] > now]]
    IN  [l EXCEPT !.now = now,
                  !.mask = mask,
                  !.temp_grid = [r \in 1..NRows(l.temp_grid) |-> [c \in 1..NCols(l.temp_grid) |->
                                    IF mask[r][c] THEN MAX_TEMP ELSE l.temp_grid[r][c]]]]

\* heat conduction (line 123)
Conduct(l) ==
    [l EXCEPT !.temp_grid = heat_conduction(l.temp_grid,
                                            Property(material, "thermal_conductivity"),
                                            Property(material, "thermal_capacity"),
                                            l.delta_time)]

\* |= written for =: the mask of the iteration before is kept.
Ignite_KeepsBurning(l) ==
    [l EXCEPT !.is_burning_grid = [r \in 1..NRows(l.temp_grid) |-> [c \in 1..NCols(l.temp_grid) |->
        \/ l.is_burning_grid[r][c]
        \/ Ignites(l.temp_grid[r][c], Material[material[r][c]].ignition_temp,
                   Material[material[r][c]].humidity, l.burned_grid[r][c])]]]

\* ignition (line 126)
Ignite(l) ==
    [l EXCEPT !.is_burning_grid = update_ignition(l.temp_grid,
                                                  Property(material, "ignition_temp"),
                                                  Property(material, "humidity"),
                                                  l.burned_grid)]

\* combustion (lines 129-134)
Combust(l) ==
    LET result == update_combustion(l.temp_grid, l.fuel_grid, l.oxygen_grid, l.is_burning_grid,
                                    Property(material, "burn_rate"),
                                    Property(material, "combustion_heat"),
                                    Property(material, "density"),
                                    Property(material, "thermal_capacity"), l.delta_time)
    IN  CHOOSE l2 \in {[l EXCEPT !.temp_grid = Field(res, "temperature"),
                                  !.fuel_grid = Field(res, "fuel_level"),
                                  !.oxygen_grid = Field(res, "oxygen_rate"),
                                  !.is_burning_grid = Field(res, "is_burning"),
                                  !.burned_grid = Field(res, "burned")] : res \in {result}} : TRUE

\* The reset left out: an expired entry keeps its timestamp.
ResetExpired_Never(expiration_grid, mask) == expiration_grid

\* manual ignition reset (line 141)
ResetExpired(expiration_grid, mask) ==
    [r \in 1..NRows(expiration_grid) |-> [c \in 1..NCols(expiration_grid) |->
        IF mask[r][c] THEN expiration_grid[r][c] ELSE 0]]

\* Cell.draw: the branch taken for a cell
Drawn(cell_is_burning, cell_burned, cell_material) ==
    IF cell_is_burning THEN "flame"
    ELSE IF cell_burned THEN "black"
    ELSE cell_material

\* the grid drawing (lines 165-168), from the fields of the Cell objects
DrawGrid(burning_cells, burned_cells) ==
    [r \in 1..NRows(material) |-> [c \in 1..NCols(material) |->
        Drawn(burning_cells[r][c], burned_cells[r][c], material[r][c])]]

\* the counts of the window title (lines 182-183)
Status(l) == [burning |-> Count(l.is_burning_grid), burned |-> Count(l.burned_grid)]

Or(a_grid, b_grid) ==
    [r \in 1..NRows(a_grid) |-> [c \in 1..NCols(a_grid) |-> a_grid[r][c] \/ b_grid[r][c]]]

\* The sections of an iteration after its events and its matrices, as they
\* follow one another in the source.
LoopOrder ==
    <<"overlay", "heat_conduction", "update_ignition", "update_combustion", "reset",
      "write_back", "draw", "status">>

\* The history at the start of a frame: the Cell fields the frame before left.
RememberCells ==
    [history EXCEPT !.frames = IF history.frames < 2 THEN history.frames + 1 ELSE 2,
                    !.steps = <<>>,
                    !.ever_burning = Or(history.ever_burning, is_burning),
                    !.expiration = manual_ignition_expiration_grid,
                    !.temperature = temperature,
                    !.fuel_level = fuel_level,
                    !.oxygen_rate = oxygen_rate,
                    !.is_burning = is_burning,
                    !.burned = burned]

\* The history of a whole frame whose update_ignition returned ignited_grid.
Remember(ignited_grid) ==
    [RememberCells EXCEPT !.steps = LoopOrder,
                          !.ignited = ignited_grid,
                          !.ever_ignited = Or(history.ever_ignited, ignited_grid)]

\* the values written to the Cell of row r and column c (lines 151-155)
WriteBackFields_BurnedFromBurning(l, r, c) ==
    [temperature |-> l.temp_grid[r][c],
     fuel_level |-> l.fuel_grid[r][c],
     oxygen_rate |-> l.oxygen_grid[r][c],
     is_burning |-> l.is_burning_grid[r][c],
     burned |-> l.is_burning_grid[r][c]]

WriteBackFields(l, r, c) ==
    [temperature |-> l.temp_grid[r][c],
     fuel_level |-> l.fuel_grid[r][c],
     oxygen_rate |-> l.oxygen_grid[r][c],
     is_burning |-> l.is_burning_grid[r][c],
     burned |-> l.burned_grid[r][c]]

\* A whole iteration after its events: clock.tick returns elapsed.
Tick(elapsed) ==
    /\ error = "none"
    /\ pc = "events"
    /\ ticks' = ticks + elapsed
    /\ clock_time' = elapsed
    /\ \E forced \in {ForceOverlay(Extract(elapsed), ticks + elapsed)} :
       \E conducted \in {Conduct(forced)} :
       \E ignited \in {Ignite(conducted)} :
       \E combusted \in {Combust(ignited)} :
          /\ loop' = [combusted EXCEPT !.written = NRows(material) * NCols(material)]
          /\ manual_ignition_expiration_grid' =
                ResetExpired(manual_ignition_expiration_grid, combusted.mask)
          /\ temperature' = combusted.temp_grid
          /\ fuel_level' = combusted.fuel_grid
          /\ oxygen_rate' = combusted.oxygen_grid
          /\ is_burning' = combusted.is_burning_grid
          /\ burned' = combusted.burned_grid
          /\ screen' = DrawGrid(combusted.is_burning_grid, combusted.burned_grid)
          /\ caption' = Status(combusted)
          /\ history' = [Remember(ignited.is_burning_grid) EXCEPT !.handed = forced.temp_grid]
    /\ UNCHANGED <<material, error, pc, call, printed>>

\* At most one click arrives in a frame, and only at the click times.
ClickMayArrive ==
    /\ ticks \in ClickTimes
    /\ \A rc \in Indices(material) :
          manual_ignition_expiration_grid[rc[1]][rc[2]] # ticks + MANUAL_IGNITION_DURATION

\* The frame period is steady over a run.
FrameMayTake(elapsed) ==
    /\ ticks < MaxTicks
    /\ elapsed \in FramePeriods
    /\ clock_time \in {0, elapsed}

Next ==
    \/ \E pos \in ClickPositions : ClickMayArrive /\ LeftClick(pos)
    \/ \E elapsed \in FramePeriods : FrameMayTake(elapsed) /\ Tick(elapsed)

Spec == Init /\ [][Next]_vars

\* The runs of a stalling machine, whose frames are seconds apart: the main
\* loop goes on to its next iteration as long as the program runs.
StallingFramePeriods == FramePeriods \ {FPS_FRAME_MS}

NextIteration == \E elapsed \in StallingFramePeriods : FrameMayTake(elapsed) /\ Tick(elapsed)

NextLive ==
    \/ \E pos \in ClickPositions : ClickMayArrive /\ LeftClick(pos)
    \/ NextIteration

SpecLive == Init /\ [][NextLive]_vars /\ WF_vars(NextIteration)

\* ------------------------------------------------------------------------
\* fire_propagation: the iteration section by section
\* ------------------------------------------------------------------------
\* The clock value after which the section-by-section runs start no frame.
MaxLoopTicks == 330

Ran(step) == [history EXCEPT !.steps = Append(history.steps, step)]

\* clock.tick and the extraction of the matrices (lines 73-100)
StepDeltaTime(elapsed) ==
    /\ error = "none"
    /\ pc = "events"
    /\ ticks' = ticks + elapsed
    /\ clock_time' = elapsed
    /\ loop' = Extract(elapsed)
    /\ history' = RememberCells
    /\ pc' = "overlay"
    /\ UNCHANGED <<material, temperature, fuel_level, oxygen_rate, is_burning, burned,
                   manual_ignition_expiration_grid, error, screen, caption, call, printed>>

\* lines 113-115
StepOverlay ==
    /\ pc = "overlay"
    /\ loop' = ForceOverlay(loop, ticks)
    /\ history' = Ran("overlay")
    /\ pc' = "heat_conduction"
    /\ UNCHANGED <<material, temperature, fuel_level, oxygen_rate, is_burning, burned,
                   manual_ignition_expiration_grid, ticks, clock_time, error, screen,
                   caption, call, printed>>

\* line 123
StepConduction ==
    /\ pc = "heat_conduction"
    /\ loop' = Conduct(loop)
    /\ history' = [Ran("heat_conduction") EXCEPT !.handed = loop.temp_grid]
    /\ pc' = "update_ignition"
    /\ UNCHANGED <<material, temperature, fuel_level, oxygen_rate, is_burning, burned,
                   manual_ignition_expiration_grid, ticks, clock_time, error, screen,
                   caption, call, printed>>

\* line 126
StepIgnition ==
    /\ pc = "update_ignition"
    /\ \E ignited \in {Ignite(loop)} :
          /\ loop' = ignited
          /\ history' = [Ran("update_ignition") EXCEPT
                            !.ignited = ignited.is_burning_grid,
                            !.ever_ignited = Or(history.ever_ignited, ignited.is_burning_grid)]
    /\ pc' = "update_combustion"
    /\ UNCHANGED <<material, temperature, fuel_level, oxygen_rate, is_burning, burned,
                   manual_ignition_expiration_grid, ticks, clock_time, error, screen,
                   caption, call, printed>>

\* lines 129-134
StepCombustion ==
    /\ pc = "update_combustion"
    /\ loop' = Combust(loop)
    /\ history' = Ran("update_combustion")
    /\ pc' = "reset"
    /\ UNCHANGED <<material, temperature, fuel_level, oxygen_rate, is_burning, burned,
                   manual_ignition_expiration_grid, ticks, clock_time, error, screen,
                   caption, call, printed>>

\* line 141
StepReset ==
    /\ pc = "reset"
    /\ manual_ignition_expiration_grid' =
          ResetExpired(manual_ignition_expiration_grid, loop.mask)
    /\ history' = Ran("reset")
    /\ pc' = "write_back"
    /\ UNCHANGED <<material, temperature, fuel_level, oxygen_rate, is_burning, burned,
                   ticks, clock_time, error, loop, screen, caption, call, printed>>

\* one pass of the inner loop of lines 149-155: the next Cell, row by row
StepWriteBack ==
    /\ pc = "write_back"
    /\ \E r \in {(loop.written \div NCols(material)) + 1} :
       \E c \in {(loop.written % NCols(material)) + 1} :
       \E fields \in {WriteBackFields(loop, r, c)} :
          /\ temperature' = [temperature EXCEPT ![r][c] = fields.temperature]
          /\ fuel_level' = [fuel_level EXCEPT ![r][c] = fields.fuel_level]
          /\ oxygen_rate' = [oxygen_rate EXCEPT ![r][c] = fields.oxygen_rate]
          /\ is_burning' = [is_burning EXCEPT ![r][c] = fields.is_burning]
          /\ burned' = [burned EXCEPT ![r][c] = fields.burned]
    /\ loop' = [loop EXCEPT !.written = loop.written + 1]
    /\ IF loop.written + 1 = NRows(material) * NCols(material)
       THEN pc' = "draw" /\ history' = Ran("write_back")
       ELSE pc' = "write_back" /\ history' = history
    /\ UNCHANGED <<material, manual_ignition_expiration_grid, ticks, clock_time, error,
                   screen, caption, call, printed>>

\* lines 162-168: every Cell draws itself from its own fields
StepDraw ==
    /\ pc = "draw"
    /\ screen' = DrawGrid(is_burning, burned)
    /\ history' = Ran("draw")
    /\ pc' = "status"
    /\ UNCHANGED <<material, temperature, fuel_level, oxygen_rate, is_burning, burned,
                   manual_ignition_expiration_grid, ticks, clock_time, error, loop,
                   caption, call, printed>>

\* lines 179-191
StepStatus ==
    /\ pc = "status"
    /\ caption' = Status(loop)
    /\ history' = Ran("status")
    /\ pc' = "events"
    /\ UNCHANGED <<material, temperature, fuel_level, oxygen_rate, is_burning, burned,
                   manual_ignition_expiration_grid, ticks, clock_time, error, loop,
                   screen, call, printed>>

LoopFrameMayTake(elapsed) ==
    /\ ticks < MaxLoopTicks
    /\ elapsed \in FramePeriods
    /\ clock_time \in {0, elapsed}

\* One cell-info query may arrive in a run, at a click time.
QueryMayArrive ==
    /\ ticks \in ClickTimes
    /\ printed = <<>>

NextLoop ==
    \/ \E pos \in ClickPositions : ClickMayArrive /\ LeftClick(pos)
    \/ \E pos \in ClickPositions : QueryMayArrive /\ RightClick(pos)
    \/ \E elapsed \in FramePeriods : LoopFrameMayTake(elapsed) /\ StepDeltaTime(elapsed)
    \/ StepOverlay
    \/ StepConduction
    \/ StepIgnition
    \/ StepCombustion
    \/ StepReset
    \/ StepWriteBack
    \/ StepDraw
    \/ StepStatus

SpecLoop == Init /\ [][NextLoop]_vars

\* ------------------------------------------------------------------------
\* Runs long enough for a fire to burn out
\* ------------------------------------------------------------------------
\* Frames at 30 per second; the user clicks once, in the first iteration.
MaxBurnTicks == 171600
BurnOutClickTimes == {0}
BurnOutClickPositions == {<<17, 17>>, <<WIN_WIDTH - 1, 5>>}

BurnOutClickMayArrive ==
    /\ ticks \in BurnOutClickTimes
    /\ \A rc \in Indices(material) :
          manual_ignition_expiration_grid[rc[1]][rc[2]] # ticks + MANUAL_IGNITION_DURATION

BurnOutFrame ==
    /\ ticks < MaxBurnTicks
    /\ history.clicks >= 1
    /\ Tick(FPS_FRAME_MS)

InitBurnOut ==
    /\ Init
    /\ \A rc \in Indices(material) : material[rc[1]][rc[2]] = "FUEL"

NextBurnOut ==
    \/ \E pos \in BurnOutClickPositions : BurnOutClickMayArrive /\ LeftClick(pos)
    \/ BurnOutFrame

SpecBurnOut == InitBurnOut /\ [][NextBurnOut]_vars /\ WF_vars(BurnOutFrame)

\* ------------------------------------------------------------------------
\* The physics functions called on their own
\* ------------------------------------------------------------------------
\* Arguments of the calls. Temperatures from far below MIN_TEMP to far above
\* MAX_TEMP, and those around the ignition thresholds.
GridTemperatures == {0 - 500000, MIN_TEMP, 900000, MAX_TEMP, 8000000}
CellTemperatures == {99999, 100000, 299999, 300000, 374999, 375000, 800000}
IgnitionTemperatures == {50, 300}
Humidities == {0, 500, 1000}
FuelLevels == {0, 1, 160000, 160001, INITIAL_FUEL}
OxygenRates == {0, MIN_OXYGEN_RATE, 5003200, 5003201, INITIAL_OXYGEN}
DeltaTimes == {1, DELTA_TIME_CAP, 100}
MaterialGrids ==
    { << <<"WOOD", "WOOD">>, <<"WOOD", "WOOD">> >>,
      << <<"GRASS", "FUEL">>, <<"WATER", "WOOD">> >>,
      << <<"FUEL", "GRASS">>, <<"GRASS", "FUEL">> >> }
One(v) == <<<<v>>>>

\* 3 x 3 grids, where the centre cell has its four neighbours: one hot cell in
\* an ambient grid, one ambient cell in a hot grid, and a grid without order.
Centre(t, around) == <<<<around, around, around>>, <<around, t, around>>, <<around, around, around>>>>
TemperatureGrids3 ==
    { Centre(900000, MIN_TEMP), Centre(MAX_TEMP, MIN_TEMP), Centre(MIN_TEMP, MAX_TEMP),
      << <<MIN_TEMP, 300000, 900000>>, <<150000, MAX_TEMP, 400000>>, <<MAX_TEMP, MIN_TEMP, 600000>> >> }
MaterialGrids3 ==
    { Centre("WOOD", "WOOD"), Centre("WOOD", "WATER"),
      << <<"GRASS", "WOOD", "FUEL">>, <<"FUEL", "GRASS", "WOOD">>, <<"WOOD", "FUEL", "GRASS">> >> }

HeatConductionCall(temp_grid, material_grid, delta_time) ==
    [fn |-> "heat_conduction", temp_grid |-> temp_grid, material_grid |-> material_grid,
     delta_time |-> delta_time, returned |-> FALSE]

UpdateIgnitionCall(temperature_1, ignition_temp, humidity, burned_1) ==
    [fn |-> "update_ignition", temperature |-> temperature_1, ignition_temp |-> ignition_temp,
     humidity |-> humidity, burned |-> burned_1, returned |-> FALSE]

UpdateCombustionCall(temperature_1, fuel_level_1, oxygen_rate_1, is_burning_1, material_1) ==
    [fn |-> "update_combustion", temperature |-> temperature_1, fuel_level |-> fuel_level_1,
     oxygen_rate |-> oxygen_rate_1, is_burning |-> is_burning_1, material |-> material_1,
     delta_time |-> DELTA_TIME_CAP, returned |-> FALSE]

PhysicsSequenceCall(temp_grid, material_grid, fuel_level_1, delta_time) ==
    [fn |-> "physics_sequence", temp_grid |-> temp_grid, material_grid |-> material_grid,
     fuel_level |-> fuel_level_1, delta_time |-> delta_time, returned |-> FALSE]

\* The grid of the program itself stays as built; its materials do not matter here.
InitEngine ==
    /\ Constructed
    /\ \A rc \in Indices(material) : material[rc[1]][rc[2]] = "FUEL"
    /\ \/ \E a \in GridTemperatures, b \in GridTemperatures, c \in GridTemperatures,
             d \in GridTemperatures, m \in MaterialGrids :
             \/ \E delta_time \in DeltaTimes :
                   call = HeatConductionCall(<<<<a, b>>, <<c, d>>>>, m, delta_time)
             \/ \E fuel \in {160000, INITIAL_FUEL} :
                   call = PhysicsSequenceCall(<<<<a, b>>, <<c, d>>>>, m, fuel, DELTA_TIME_CAP)
       \/ \E g \in TemperatureGrids3, m \in MaterialGrids3, delta_time \in DeltaTimes :
             \/ call = HeatConductionCall(g, m, delta_time)
             \/ call = PhysicsSequenceCall(g, m, INITIAL_FUEL, delta_time)
       \/ \E t \in CellTemperatures, ignition_temp \in IgnitionTemperatures,
             humidity \in Humidities, b \in BOOLEAN :
             call = UpdateIgnitionCall(t, ignition_temp, humidity, b)
       \/ \E t \in {MIN_TEMP, 400000, MAX_TEMP}, fuel \in FuelLevels, oxygen \in OxygenRates,
             b \in BOOLEAN, m \in MaterialNames :
             call = UpdateCombustionCall(t, fuel, oxygen, b, m)

\* The call as it stands after the return: its arguments as they were, the
\* returned arrays, what the arrays handed to the function hold now, and the
\* intermediate arrays of the call.
Returns(result, passed, trace) ==
    /\ ~call.returned
    /\ call' = [fn |-> call.fn, args |-> call, returned |-> TRUE, result |-> result,
                passed |-> passed, trace |-> trace]
    /\ UNCHANGED <<material, temperature, fuel_level, oxygen_rate, is_burning, burned,
                   manual_ignition_expiration_grid, ticks, clock_time, error, pc, loop,
                   screen, caption, printed, history>>

CallHeatConduction ==
    /\ call.fn = "heat_conduction"
    /\ ~call.returned
    /\ \E result \in {heat_conduction(call.temp_grid,
                                       Property(call.material_grid, "thermal_conductivity"),
                                       Property(call.material_grid, "thermal_capacity"),
                                       call.delta_time)} :
       \E updated \in {ConductionUnclamped(call.temp_grid,
                                            Property(call.material_grid, "thermal_conductivity"),
                                            Property(call.material_grid, "thermal_capacity"),
                                            call.delta_time)} :
          Returns(result, [temp_grid |-> result], [updated |-> updated])

CallUpdateIgnition ==
    /\ call.fn = "update_ignition"
    /\ ~call.returned
    /\ \E result \in {update_ignition(One(call.temperature), One(call.ignition_temp),
                                       One(call.humidity), One(call.burned))} :
          Returns(result, [temperature_grid |-> One(call.temperature),
                           burned_grid |-> One(call.burned)], <<>>)

CallUpdateCombustion ==
    /\ call.fn = "update_combustion"
    /\ ~call.returned
    /\ \E result \in {update_combustion(One(call.temperature), One(call.fuel_level),
                                         One(call.oxygen_rate), One(call.is_burning),
                                         One(Material[call.material].burn_rate),
                                         One(Material[call.material].combustion_heat),
                                         One(Material[call.material].density),
                                         One(Material[call.material].thermal_capacity),
                                         call.delta_time)} :
       \E passed \in {update_combustion_arguments(
                           One(call.temperature), One(call.fuel_level),
                           One(call.oxygen_rate), One(call.is_burning),
                           One(Material[call.material].burn_rate),
                           One(Material[call.material].combustion_heat),
                           One(Material[call.material].density),
                           One(Material[call.material].thermal_capacity),
                           call.delta_time)} :
          Returns(result, passed, <<>>)

\* the three physics calls of an iteration, one after the other (lines 122-134)
CallPhysicsSequence ==
    /\ call.fn = "physics_sequence"
    /\ ~call.returned
    /\ \E conducted \in {heat_conduction(call.temp_grid,
                                          Property(call.material_grid, "thermal_conductivity"),
                                          Property(call.material_grid, "thermal_capacity"),
                                          call.delta_time)} :
       \E ignited \in {update_ignition(conducted,
                                        Property(call.material_grid, "ignition_temp"),
                                        Property(call.material_grid, "humidity"),
                                        Full(NRows(call.temp_grid), NCols(call.temp_grid), FALSE))} :
       \E result \in {update_combustion(conducted,
                                         Full(NRows(call.temp_grid), NCols(call.temp_grid),
                                              call.fuel_level),
                                         Full(NRows(call.temp_grid), NCols(call.temp_grid),
                                              INITIAL_OXYGEN),
                                         ignited,
                                         Property(call.material_grid, "burn_rate"),
                                         Property(call.material_grid, "combustion_heat"),
                                         Property(call.material_grid, "density"),
                                         Property(call.material_grid, "thermal_capacity"),
                                         call.delta_time)} :
          Returns(result, [temp_grid |-> conducted], [conducted |-> conducted, ignited |-> ignited])

NextEngine ==
    \/ CallHeatConduction
    \/ CallUpdateIgnition
    \/ CallUpdateCombustion
    \/ CallPhysicsSequence

SpecEngine == InitEngine /\ [][NextEngine]_vars

\* ------------------------------------------------------------------------
\* Claims
\* ------------------------------------------------------------------------
AllCells == Indices(material)
At(g, rc) == g[rc[1]][rc[2]]

\* C1: burned is terminal. Every committed burned cell has fuel_level = 0 and
\* is_burning = false, and no step (a frame or a click) takes a burned cell
\* back to burned = false, whatever its temperature or its overlay.
C1_BurnedTerminal ==
    /\ [](\A rc \in AllCells :
            At(burned, rc) => At(fuel_level, rc) = 0 /\ ~At(is_burning, rc))
    /\ [][\A rc \in AllCells : At(burned, rc) => At(burned, rc)']_vars

\* A cell that was burned before the last frame, forced to MAX_TEMP by its
\* overlay in that frame, and committed again.
C1_Witness ==
    \E rc \in AllCells :
        /\ At(history.burned, rc)
        /\ At(loop.mask, rc)
        /\ At(burned, rc)
        /\ At(temperature, rc) > 2 * MIN_IGNITION_TEMP

C4_FuelOxygenNeverRise ==
    /\ [](\A rc \in AllCells : At(fuel_level, rc) >= 0 /\ At(oxygen_rate, rc) >= 0)
    /\ [][\A rc \in AllCells :
            /\ At(fuel_level, rc)' <= At(fuel_level, rc)
            /\ At(oxygen_rate, rc)' <= At(oxygen_rate, rc)]_vars

\* The last frame lowered a cell's fuel and oxygen, and the cell is clicked.
C4_Witness ==
    \E rc \in AllCells :
        /\ At(fuel_level, rc) < At(history.fuel_level, rc)
        /\ At(oxygen_rate, rc) < At(history.oxygen_rate, rc)
        /\ At(manual_ignition_expiration_grid, rc) = ticks + MANUAL_IGNITION_DURATION

\* The derived state of a cell: 0 UNIGNITED, 1 BURNING, 2 BURNED.
DerivedState(cell_is_burning, cell_burned) ==
    IF cell_burned THEN 2 ELSE IF cell_is_burning THEN 1 ELSE 0

\* C7 as claimed: between two consecutive committed states the derived state
\* of a cell stays the same or moves forward along UNIGNITED, BURNING, BURNED.
C7_OnlyForward ==
    [][\A rc \in AllCells :
          DerivedState(At(is_burning, rc)', At(burned, rc)') >=
              DerivedState(At(is_burning, rc), At(burned, rc))]_vars

\* C7 as amended: BURNED is never left, and the only move backwards is that of
\* a BURNING cell to UNIGNITED in a tick whose ignition mask does not hold it
\* (its temperature after conduction is below its effective ignition
\* temperature).
C7_ForwardOrExtinguished ==
    [][\A rc \in AllCells :
          \/ DerivedState(At(is_burning, rc)', At(burned, rc)') >=
                 DerivedState(At(is_burning, rc), At(burned, rc))
          \/ /\ At(is_burning, rc) /\ ~At(burned, rc)
             /\ ~At(is_burning, rc)' /\ ~At(burned, rc)'
             /\ ~At(history.ignited, rc)']_vars

\* A cell committed BURNING before the last tick and UNIGNITED by it.
C7_Witness ==
    \E rc \in AllCells :
        /\ history.frames >= 1
        /\ At(history.is_burning, rc)
        /\ ~At(is_burning, rc) /\ ~At(burned, rc)
        /\ ~At(history.ignited, rc)

\* C8: a cell becomes burned only in a tick whose burning mask holds it or
\* after it was committed burning in an earlier tick; a cell that no ignition
\* mask ever held is not burned and has its initial fuel and oxygen.
C8_BurnedOnlyAfterIgnition ==
    /\ [][\A rc \in AllCells :
            (~At(burned, rc) /\ At(burned, rc)') =>
                (At(history.ignited, rc)' \/ At(history.ever_burning, rc)')]_vars
    /\ [](\A rc \in AllCells :
            ~At(history.ever_ignited, rc) =>
                /\ ~At(burned, rc)
                /\ At(fuel_level, rc) = INITIAL_FUEL
                /\ At(oxygen_rate, rc) = INITIAL_OXYGEN)

\* One cell is burned while another has been heated by its neighbours above
\* the ambient temperature without ever igniting.
C8_Witness ==
    \E rc \in AllCells, other \in AllCells :
        /\ At(burned, rc) /\ At(history.ever_burning, rc)
        /\ ~At(history.ever_ignited, other)
        /\ At(temperature, other) > MIN_TEMP

\* C9: a WATER cell is never committed burning and its fuel and oxygen never
\* change, whatever its neighbours' temperatures and its overlay.
C9_WaterNeverBurns ==
    \A rc \in AllCells :
        At(material, rc) = "WATER" =>
            /\ ~At(is_burning, rc)
            /\ At(fuel_level, rc) = INITIAL_FUEL
            /\ At(oxygen_rate, rc) = INITIAL_OXYGEN

\* A WATER cell forced to MAX_TEMP by its live overlay in the last tick (and
\* committed above the ignition temperature of every other material) while
\* another cell burns.
C9_Witness ==
    \E rc \in AllCells, other \in AllCells :
        /\ At(material, rc) = "WATER"
        /\ At(loop.mask, rc)
        /\ At(temperature, rc) > 1000 * Material["WOOD"].ignition_temp * 2
        /\ At(is_burning, other)

\* The call that has returned is one of fn.
Returned(fn) == call.fn = fn /\ call.returned

InRange(temperature_grid) ==
    \A rc \in Indices(temperature_grid) :
        At(temperature_grid, rc) >= MIN_TEMP /\ At(temperature_grid, rc) <= MAX_TEMP

\* C2: whatever the temperatures of the input grid (far below MIN_TEMP, far
\* above MAX_TEMP) and the tick duration, every temperature returned by
\* heat_conduction, and every temperature after conduction, ignition and
\* combustion in sequence, lies in [MIN_TEMP, MAX_TEMP].
C2_TemperatureInRange ==
    /\ Returned("heat_conduction") => InRange(call.result)
    /\ Returned("physics_sequence") => InRange(Field(call.result, "temperature"))

\* The whole sequence has returned for a grid whose temperatures are all out
\* of range, some below MIN_TEMP and some above MAX_TEMP.
C2_Witness ==
    /\ Returned("physics_sequence")
    /\ \A rc \in Indices(call.args.temp_grid) :
          At(call.args.temp_grid, rc) < MIN_TEMP \/ At(call.args.temp_grid, rc) > MAX_TEMP
    /\ \E rc \in Indices(call.args.temp_grid) : At(call.args.temp_grid, rc) < MIN_TEMP
    /\ \E rc \in Indices(call.args.temp_grid) : At(call.args.temp_grid, rc) > MAX_TEMP

IgnitionCase(degrees, ignition_degrees, percent) ==
    /\ Returned("update_ignition")
    /\ call.args.temperature = 1000 * degrees
    /\ call.args.ignition_temp = ignition_degrees
    /\ call.args.humidity = 10 * percent
    /\ ~call.args.burned

\* C6: update_ignition returns true for a cell exactly when its temperature
\* is at least max(100, ignition_temp * (1 + humidity / 200)) and it is not
\* burned. At its ignition temperature a cell of humidity 0 ignites and one of
\* humidity 50 does not, but does 500 degrees higher; below 100 degrees
\* nothing ignites.
C6_IgnitionThreshold ==
    /\ Returned("update_ignition") =>
          (call.result[1][1] <=>
              (/\ 200 * call.args.temperature >=
                      call.args.ignition_temp * (200000 + 100 * call.args.humidity)
               /\ call.args.temperature >= 100000
               /\ ~call.args.burned))
    /\ IgnitionCase(300, 300, 0) => call.result[1][1]
    /\ IgnitionCase(300, 300, 50) => ~call.result[1][1]
    /\ IgnitionCase(800, 300, 50) => call.result[1][1]
    /\ (Returned("update_ignition") /\ call.args.temperature < 100000) => ~call.result[1][1]

\* The cell of humidity 50 that does not ignite at its ignition temperature
\* has been tried 500 degrees higher, and has ignited.
C6_Witness ==
    /\ IgnitionCase(800, 300, 50)
    /\ call.result[1][1]

\* The Cell objects hold what the physics of the running iteration returned.
WrittenBack ==
    /\ loop.written = NRows(material) * NCols(material)
    /\ temperature = loop.temp_grid
    /\ fuel_level = loop.fuel_grid
    /\ oxygen_rate = loop.oxygen_grid
    /\ is_burning = loop.is_burning_grid
    /\ burned = loop.burned_grid

\* C10: the sections of an iteration run in the order overlay, heat_conduction,
\* update_ignition, update_combustion, reset, write-back, drawing, status;
\* update_ignition holds no cell the previous tick left burned, and
\* update_combustion lets burn only cells of the mask update_ignition just
\* returned; when the grid is drawn and the status is read every Cell holds
\* the five values of the running tick, and what is drawn is drawn from them.
C10_FixedOrderCompleteWriteBack ==
    /\ history.steps = SubSeq(LoopOrder, 1, Len(history.steps))
    /\ (pc = "events" /\ history.frames >= 1) => history.steps = LoopOrder
    /\ pc = "update_combustion" =>
          \A rc \in AllCells :
              /\ At(loop.is_burning_grid, rc) = At(history.ignited, rc)
              /\ At(loop.is_burning_grid, rc) => ~At(burned, rc)
    /\ pc = "reset" =>
          \A rc \in AllCells :
              /\ At(loop.is_burning_grid, rc) => At(history.ignited, rc)
              /\ At(loop.fuel_grid, rc) < At(fuel_level, rc) => At(history.ignited, rc)
    /\ pc \in {"draw", "status"} => WrittenBack
    /\ pc = "status" =>
          \A rc \in AllCells :
              At(screen, rc) = Drawn(At(loop.is_burning_grid, rc), At(loop.burned_grid, rc),
                                    At(material, rc))

\* The grid is about to be drawn after a tick that set a cell on fire which
\* the tick before had left unignited.
C10_Witness ==
    /\ pc = "draw"
    /\ history.frames = 2
    /\ \E rc \in AllCells : At(is_burning, rc) /\ ~At(history.is_burning, rc)

\* C11: in every tick, the temperature handed to heat_conduction for a cell
\* whose expiration timestamp is strictly greater than the now of the tick is
\* MAX_TEMP, whatever temperature the cell held; for a cell whose expiration
\* is at most now it is the temperature the cell held.
C11_OverlayForcesMaxTemp ==
    history.frames >= 1 =>
        \A rc \in AllCells :
            IF At(history.expiration, rc) > loop.now
            THEN At(history.handed, rc) = MAX_TEMP
            ELSE At(history.handed, rc) = At(history.temperature, rc)

\* The last tick sampled a now equal to the expiration of a clicked cell that
\* held less than MAX_TEMP: the cell was handed over as it was.
C11_Witness ==
    \E rc \in AllCells :
        /\ history.frames >= 1
        /\ At(history.expiration, rc) = loop.now
        /\ At(history.temperature, rc) < MAX_TEMP
        /\ At(history.temperature, rc) > MIN_TEMP
        /\ At(history.handed, rc) = At(history.temperature, rc)

\* The cells of the grid, by row and column from 1, and those under the
\* cursor positions of the clicks.
GridCells == (1..cells_in_col) \X (1..cells_in_row)
ClickedCells == {<<ClickRow(pos) + 1, ClickColumn(pos) + 1>> : pos \in ClickPositions} \cap GridCells

\* C12: overlay entries are cleared once expired. After the reset of every
\* tick each entry of the expiration grid is 0 or strictly greater than the
\* now of that tick; a tick that samples a now at or after an entry sets the
\* entry to 0; an entry at 0 leaves 0 only by a left click on its cell, which
\* sets it 15000 ms ahead (no other cell's entry is ever set); and, the loop
\* going on, every entry a click has set is eventually back at 0.
C12_ExpiredEntriesCleared ==
    /\ [](\A rc \in GridCells :
            \/ At(manual_ignition_expiration_grid, rc) = 0
            \/ At(manual_ignition_expiration_grid, rc) > loop.now)
    /\ [][\A rc \in GridCells :
            /\ (ticks' # ticks /\ At(manual_ignition_expiration_grid, rc) <= ticks') =>
                   At(manual_ignition_expiration_grid, rc)' = 0
            /\ (At(manual_ignition_expiration_grid, rc) = 0
                  /\ At(manual_ignition_expiration_grid, rc)' # 0) =>
                   /\ ticks' = ticks
                   /\ At(manual_ignition_expiration_grid, rc)' = ticks + MANUAL_IGNITION_DURATION
                   /\ \A other \in GridCells \ {rc} :
                         At(manual_ignition_expiration_grid, other)' =
                             At(manual_ignition_expiration_grid, other)]_vars
    /\ \A rc \in ClickedCells :
          (At(manual_ignition_expiration_grid, rc) # 0) ~>
              (At(manual_ignition_expiration_grid, rc) = 0)

\* The entry of a cell clicked a second time, long after its first entry was
\* reset, has been reset again by the tick that sampled the first now after it.
C12_Witness ==
    \E rc \in GridCells :
        /\ At(history.expiration, rc) = 180180 + MANUAL_IGNITION_DURATION
        /\ At(history.expiration, rc) <= loop.now
        /\ At(manual_ignition_expiration_grid, rc) = 0
        /\ At(history.ever_burning, rc)

\* The last event handled was a click (of either button) at a cursor position
\* whose row or column is past the grid.
ClickedOutside ==
    /\ history.clicks >= 1
    /\ ~InGrid(ClickRow(history.click.pos), ClickColumn(history.click.pos))

\* C13: a manual ignition or a cell-info query whose position maps to a row
\* >= the number of rows or a column >= the number of columns is reported as
\* an error (IndexError) and not silently ignored; it leaves the expiration
\* grid and every cell's fields as they were, sets no other cell's entry and
\* prints no other cell's info.
C13_OutOfGridClickReported ==
    [][(history.clicks' # history.clicks /\ ClickedOutside') =>
          /\ error' = "IndexError"
          /\ UNCHANGED <<manual_ignition_expiration_grid, material, temperature, fuel_level,
                         oxygen_rate, is_burning, burned, printed>>]_vars

\* A query below the last row has ended the program while the entry of a
\* clicked cell is live.
C13_Witness ==
    /\ ClickedOutside
    /\ history.click.button = "right"
    /\ ClickRow(history.click.pos) >= NRows(material)
    /\ error = "IndexError"
    /\ \E rc \in AllCells : At(manual_ignition_expiration_grid, rc) > ticks

\* C14: the tick duration handed to heat_conduction and to update_combustion
\* is at most 0.02 s whatever the clock returned: delta_time is the smaller of
\* the clock's value and the cap, and it is not written between the clock's
\* tick and the end of update_combustion, so both calls get the same value.
C14_DeltaTimeCapped ==
    /\ [](/\ loop.delta_time <= DELTA_TIME_CAP
          /\ loop.delta_time = Min(clock_time, DELTA_TIME_CAP))
    /\ [][(pc \in {"overlay", "heat_conduction", "update_ignition", "update_combustion"}) =>
             loop.delta_time' = loop.delta_time]_vars

\* update_combustion is about to be called in an iteration whose clock
\* returned five seconds.
C14_Witness ==
    /\ pc = "update_combustion"
    /\ clock_time > 1000
    /\ loop.delta_time = DELTA_TIME_CAP
    /\ history.steps = <<"overlay", "heat_conduction", "update_ignition">>

\* The grid has one temperature in all its cells.
Uniform(temp_grid) ==
    \A rc \in Indices(temp_grid), other \in Indices(temp_grid) :
        At(temp_grid, rc) = At(temp_grid, other)

\* C15 as claimed: for every grid whose cells all have the same temperature
\* (here: one within [MIN_TEMP, MAX_TEMP]), conduction, ignition and
\* combustion in sequence leave every cell's temperature unchanged.
C15_UniformStepUnchanged ==
    (Returned("physics_sequence") /\ Uniform(call.args.temp_grid)
        /\ InRange(call.args.temp_grid)) =>
        Field(call.result, "temperature") = call.args.temp_grid

\* C15 as amended: for every grid whose cells all have the same temperature t
\* within [MIN_TEMP, MAX_TEMP], the sequence leaves unchanged the temperature
\* of every cell that does not ignite at t, and takes an igniting cell to
\* min(MAX_TEMP, t + its combustion heating), never below t.
C15_UniformStepHeatsOnlyIgnited ==
    (Returned("physics_sequence") /\ Uniform(call.args.temp_grid)
        /\ InRange(call.args.temp_grid)) =>
        \A rc \in Indices(call.args.temp_grid) :
            LET t == At(call.args.temp_grid, rc)
                m == Material[At(call.args.material_grid, rc)]
            IN  IF 2 * t >= Max(m.ignition_temp * (2000 + m.humidity), 2 * MIN_IGNITION_TEMP)
                THEN /\ At(call.result, rc).temperature >= t
                     /\ At(call.result, rc).temperature =
                            Min(MAX_TEMP, t + ((m.burn_rate * call.args.delta_time
                                                  * m.combustion_heat * 10000)
                                               \div (m.density * m.thermal_capacity)))
                ELSE At(call.result, rc).temperature = t

\* The sequence has returned for a grid at 900 degrees everywhere: the WATER
\* cell is as it was and a neighbour of another material, set burning, is
\* hotter.
C15_Witness ==
    /\ Returned("physics_sequence")
    /\ Uniform(call.args.temp_grid)
    /\ InRange(call.args.temp_grid)
    /\ \E rc \in Indices(call.args.temp_grid), other \in Indices(call.args.temp_grid) :
          /\ At(call.args.material_grid, rc) = "WATER"
          /\ At(call.result, rc).temperature = At(call.args.temp_grid, rc)
          /\ At(call.result, other).is_burning
          /\ At(call.result, other).temperature > At(call.args.temp_grid, other)

\* C16: heat_conduction applied to a grid whose cells all have the same
\* temperature t, MIN_TEMP <= t <= MAX_TEMP, returns a grid equal to its input,
\* for any conductivities, any positive capacities and any tick duration.
C16_UniformConductionUnchanged ==
    (Returned("heat_conduction") /\ Uniform(call.args.temp_grid)
        /\ InRange(call.args.temp_grid)) =>
        call.result = call.args.temp_grid

\* heat_conduction has returned for a grid of four materials at 900 degrees
\* everywhere and a tick of 0.1 s.
C16_Witness ==
    /\ Returned("heat_conduction")
    /\ Uniform(call.args.temp_grid)
    /\ call.args.temp_grid[1][1] = 900000
    /\ call.args.delta_time = 100
    /\ Cardinality({At(call.args.material_grid, rc) : rc \in Indices(call.args.material_grid)}) = 4
    /\ call.result = call.args.temp_grid

\* The temperature grid has one hot cell, at hot, and all its other cells at one
\* cooler temperature.
OneHotCell(temp_grid, hot) ==
    /\ \A rc \in Indices(temp_grid) \ {hot} : At(temp_grid, rc) < At(temp_grid, hot)
    /\ \A rc \in Indices(temp_grid) \ {hot}, other \in Indices(temp_grid) \ {hot} :
          At(temp_grid, rc) = At(temp_grid, other)

\* The in-grid right, left, lower and upper neighbours of a cell.
Neighbours(temp_grid, rc) ==
    {<<rc[1], rc[2] + 1>>, <<rc[1], rc[2] - 1>>, <<rc[1] + 1, rc[2]>>, <<rc[1] - 1, rc[2]>>}
        \cap Indices(temp_grid)

\* C17: for every grid with exactly one hot cell and all other cells at one
\* common cooler temperature (both within [MIN_TEMP, MAX_TEMP], positive
\* conductivities, capacities and tick duration), one heat_conduction call
\* strictly lowers the hot cell's temperature and strictly raises that of each
\* of its in-grid right, left, upper and lower neighbours.
C17_HotCellCoolsNeighboursWarm ==
    \A hot \in (1..2) \X (1..2) :
        (Returned("heat_conduction") /\ InRange(call.args.temp_grid)
            /\ OneHotCell(call.args.temp_grid, hot)) =>
            /\ At(call.result, hot) < At(call.args.temp_grid, hot)
            /\ \A n \in Neighbours(call.args.temp_grid, hot) :
                  At(call.result, n) > At(call.args.temp_grid, n)

\* heat_conduction has returned for a grid whose lower right cell is at
\* MAX_TEMP and whose other cells are at MIN_TEMP, with a tick of 1 ms: the
\* hot cell has cooled and its left and upper neighbours have warmed.
C17_Witness ==
    /\ Returned("heat_conduction")
    /\ OneHotCell(call.args.temp_grid, <<2, 2>>)
    /\ call.args.temp_grid[2][2] = MAX_TEMP
    /\ call.args.temp_grid[1][1] = MIN_TEMP
    /\ call.args.delta_time = 1
    /\ call.result[2][2] < MAX_TEMP
    /\ call.result[2][1] > MIN_TEMP
    /\ call.result[1][2] > MIN_TEMP

\* The material record of the cell of an update_combustion call.
CallMaterial == Material[call.args.material]

\* C18 as claimed: in update_combustion a cell of the input burning mask ends
\* with fuel = max(0, fuel - burn_rate * tick duration), a cell not in the
\* mask and not ending burned keeps its fuel, and no fuel ends negative.
C18_FuelConsumedByMask ==
    Returned("update_combustion") =>
        /\ call.result[1][1].fuel_level >= 0
        /\ call.args.is_burning =>
              call.result[1][1].fuel_level =
                  Max(0, call.args.fuel_level
                            - CallMaterial.burn_rate * call.args.delta_time * 1000)
        /\ (~call.args.is_burning /\ ~call.result[1][1].burned) =>
              call.result[1][1].fuel_level = call.args.fuel_level

\* C18 as amended: a cell that does not end burned ends with fuel - burn_rate
\* * tick duration if it is in the input burning mask and with its fuel
\* unchanged if it is not; a cell that ends burned ends with fuel 0, whatever
\* it had left; no fuel ends negative.
C18_FuelConsumedOrZeroed ==
    Returned("update_combustion") =>
        /\ call.result[1][1].fuel_level >= 0
        /\ call.result[1][1].burned => call.result[1][1].fuel_level = 0
        /\ (call.args.is_burning /\ ~call.result[1][1].burned) =>
              call.result[1][1].fuel_level =
                  call.args.fuel_level - CallMaterial.burn_rate * call.args.delta_time * 1000
        /\ (~call.args.is_burning /\ ~call.result[1][1].burned) =>
              call.result[1][1].fuel_level = call.args.fuel_level

\* A burning cell with all its fuel whose oxygen falls to the minimum rate in
\* the call: it ends burned, with no fuel.
C18_Witness ==
    /\ Returned("update_combustion")
    /\ call.args.is_burning
    /\ call.args.fuel_level = INITIAL_FUEL
    /\ call.args.oxygen_rate > MIN_OXYGEN_RATE
    /\ call.result[1][1].oxygen_rate = MIN_OXYGEN_RATE
    /\ call.result[1][1].burned
    /\ call.result[1][1].fuel_level = 0

C20_OxygenConsumedByMask ==
    Returned("update_combustion") =>
        /\ call.result[1][1].oxygen_rate >= 0
        /\ call.args.is_burning =>
              call.result[1][1].oxygen_rate =
                  Max(0, call.args.oxygen_rate
                            - CallMaterial.burn_rate * call.args.delta_time * call.args.delta_time)
        /\ ~call.args.is_burning =>
              call.result[1][1].oxygen_rate = call.args.oxygen_rate

\* A burning WOOD cell with the initial oxygen has less of it after the call.
C20_Witness ==
    /\ Returned("update_combustion")
    /\ call.args.is_burning
    /\ call.args.material = "WOOD"
    /\ call.args.oxygen_rate = INITIAL_OXYGEN
    /\ call.result[1][1].oxygen_rate < INITIAL_OXYGEN
    /\ call.result[1][1].is_burning

\* C21: a 3 x 3 grid of WOOD with full fuel and oxygen and nothing burned, the
\* centre at 900 degrees and the other cells at 20, taken through conduction,
\* ignition and combustion with a tick of 0.1 s: the centre comes out burning,
\* its fuel lower by burn_rate * 0.1, its temperature after combustion higher
\* than after conduction, and each of its four axis-aligned neighbours hotter
\* than 20 degrees.
WoodScenario ==
    /\ Returned("physics_sequence")
    /\ call.args.temp_grid = Centre(900000, MIN_TEMP)
    /\ call.args.material_grid = Centre("WOOD", "WOOD")
    /\ call.args.fuel_level = INITIAL_FUEL
    /\ call.args.delta_time = 100

C21_WoodScenario ==
    WoodScenario =>
        /\ call.result[2][2].is_burning
        /\ call.result[2][2].fuel_level = INITIAL_FUEL - Material["WOOD"].burn_rate * 100 * 1000
        /\ call.result[2][2].temperature > call.trace.conducted[2][2]
        /\ \A n \in {<<1, 2>>, <<2, 1>>, <<2, 3>>, <<3, 2>>} :
              At(call.result, n).temperature > MIN_TEMP

\* The scenario has run: the centre has cooled by conduction, burns, and the
\* corner cells, which do not touch it, are still at 20 degrees.
C21_Witness ==
    /\ WoodScenario
    /\ call.trace.conducted[2][2] < 900000
    /\ call.trace.ignited[2][2]
    /\ call.result[2][2].is_burning
    /\ call.result[1][1].temperature = MIN_TEMP
    /\ ~call.result[1][2].is_burning

\* C22: the burned mask update_combustion returns is true exactly for the
\* cells where, after the fuel consumption and the update of the burning mask,
\* fuel <= 0, or the cell is not burning and fuel <= 1e-7, or the cell is not
\* burning and oxygen <= 5.0; a burned cell is returned with fuel exactly 0,
\* every other cell with its fuel after consumption.
FuelAfterConsumption ==
    Max(call.args.fuel_level -
            (IF call.args.is_burning
             THEN Material[call.args.material].burn_rate * call.args.delta_time * 1000
             ELSE 0), 0)

LossTo(temp_grid, material_grid, delta_time, rc, n) ==
    IF n \in Indices(temp_grid)
    THEN TempChange(HeatTransfer(At(temp_grid, rc) - At(temp_grid, n),
                                 Material[At(material_grid, rc)].thermal_conductivity
                                     + Material[At(material_grid, n)].thermal_conductivity,
                                 delta_time),
                    Material[At(material_grid, rc)].thermal_capacity)
    ELSE 0

\* C23: heat_conduction returns, for each cell c, the clamp to [MIN_TEMP,
\* MAX_TEMP] of T(c) minus the sum over its in-grid right, left, lower and upper
\* neighbours n of ((k(c) + k(n)) / 2 * (T(c) - T(n)) * contact area / distance
\* * delta_time) / capacity(c), every T being the temperature at entry: each
\* pair contributes once to each of its two cells, nothing comes from beyond
\* the edge of the grid, and the result is the same whether the horizontal or
\* the vertical updates are applied first.
C23_ConductionClosedForm ==
    Returned("heat_conduction") =>
        /\ \A rc \in Indices(call.args.temp_grid) :
              At(call.result, rc) =
                  Clip(At(call.args.temp_grid, rc)
                       - LossTo(call.args.temp_grid, call.args.material_grid,
                                call.args.delta_time, rc, <<rc[1], rc[2] + 1>>)
                       - LossTo(call.args.temp_grid, call.args.material_grid,
                                call.args.delta_time, rc, <<rc[1], rc[2] - 1>>)
                       - LossTo(call.args.temp_grid, call.args.material_grid,
                                call.args.delta_time, rc, <<rc[1] + 1, rc[2]>>)
                       - LossTo(call.args.temp_grid, call.args.material_grid,
                                call.args.delta_time, rc, <<rc[1] - 1, rc[2]>>),
                       MIN_TEMP, MAX_TEMP)
        /\ call.trace.updated =
              VerticalUpdates(
                  HorizontalUpdates(call.args.temp_grid, call.args.temp_grid,
                                    Property(call.args.material_grid, "thermal_conductivity"),
                                    Property(call.args.material_grid, "thermal_capacity"),
                                    call.args.delta_time),
                  call.args.temp_grid,
                  Property(call.args.material_grid, "thermal_conductivity"),
                  Property(call.args.material_grid, "thermal_capacity"),
                  call.args.delta_time)
        /\ call.trace.updated =
              HorizontalUpdates(
                  VerticalUpdates(call.args.temp_grid, call.args.temp_grid,
                                  Property(call.args.material_grid, "thermal_conductivity"),
                                  Property(call.args.material_grid, "thermal_capacity"),
                                  call.args.delta_time),
                  call.args.temp_grid,
                  Property(call.args.material_grid, "thermal_conductivity"),
                  Property(call.args.material_grid, "thermal_capacity"),
                  call.args.delta_time)

\* A centre cell of a grid of three materials whose four neighbours all differ
\* from it in temperature, returned cooler and within the limits.
C23_Witness ==
    /\ Returned("heat_conduction")
    /\ NRows(call.args.temp_grid) = 3
    /\ Cardinality({At(call.args.material_grid, rc) : rc \in Indices(call.args.material_grid)}) = 3
    /\ Cardinality({At(call.args.temp_grid, n) : n \in Neighbours(call.args.temp_grid, <<2, 2>>)}) = 4
    /\ call.result[2][2] < call.args.temp_grid[2][2]
    /\ call.result[2][2] > MIN_TEMP
    /\ call.result[1][1] > MIN_TEMP

\* C24 as claimed: a call of heat_conduction, update_ignition or
\* update_combustion leaves the arrays passed to it (temperature, fuel, oxygen,
\* burning mask, burned mask) as they were. Temperatures within [MIN_TEMP,
\* MAX_TEMP] are enough to see that it does not.
C24_ArgumentsUnmodified ==
    /\ (Returned("heat_conduction") /\ InRange(call.args.temp_grid)) =>
          call.passed.temp_grid = call.args.temp_grid
    /\ Returned("update_ignition") =>
          /\ call.passed.temperature_grid = One(call.args.temperature)
          /\ call.passed.burned_grid = One(call.args.burned)
    /\ Returned("update_combustion") =>
          /\ call.passed[1][1].temperature = call.args.temperature
          /\ call.passed[1][1].fuel_level = call.args.fuel_level
          /\ call.passed[1][1].oxygen_rate = call.args.oxygen_rate
          /\ call.passed[1][1].is_burning = call.args.is_burning

\* C24 as amended: the three functions keep no state between calls and what
\* they return is a function of their arguments alone, and update_ignition
\* leaves its arrays as they were; but heat_conduction writes its result into
\* the temperature array passed to it, and update_combustion updates the
\* temperature, fuel, oxygen and burning-mask arrays passed to it in place:
\* after the call they hold the temperature plus the heating (not capped at
\* MAX_TEMP), the fuel and the oxygen minus the consumption (not floored at 0)
\* and the returned burning mask.
C24_ArgumentsWrittenInPlace ==
    /\ [](Returned("heat_conduction") =>
            /\ call.passed.temp_grid = call.result
            /\ call.result =
                  heat_conduction(call.args.temp_grid,
                                  Property(call.args.material_grid, "thermal_conductivity"),
                                  Property(call.args.material_grid, "thermal_capacity"),
                                  call.args.delta_time))
    /\ [](Returned("update_ignition") =>
            /\ call.passed.temperature_grid = One(call.args.temperature)
            /\ call.passed.burned_grid = One(call.args.burned)
            /\ call.result =
                  update_ignition(One(call.args.temperature), One(call.args.ignition_temp),
                                  One(call.args.humidity), One(call.args.burned)))
    /\ [](Returned("update_combustion") =>
            /\ call.passed[1][1].is_burning = call.result[1][1].is_burning
            /\ call.passed[1][1].fuel_level =
                  call.args.fuel_level -
                      (IF call.args.is_burning
                       THEN Material[call.args.material].burn_rate * call.args.delta_time * 1000
                       ELSE 0)
            /\ call.passed[1][1].oxygen_rate =
                  call.args.oxygen_rate -
                      (IF call.args.is_burning
                       THEN Material[call.args.material].burn_rate * call.args.delta_time
                                * call.args.delta_time
                       ELSE 0)
            /\ call.passed[1][1].temperature >= call.args.temperature
            /\ (call.args.is_burning /\ Material[call.args.material].burn_rate > 0) =>
                  call.passed[1][1].temperature > call.args.temperature
            /\ call.result[1][1].temperature = Min(call.passed[1][1].temperature, MAX_TEMP)
            /\ call.result[1][1].oxygen_rate = Max(call.passed[1][1].oxygen_rate, 0)
            /\ ~call.result[1][1].burned =>
                  call.result[1][1].fuel_level = Max(call.passed[1][1].fuel_level, 0))
    /\ [][UNCHANGED <<material, temperature, fuel_level, oxygen_rate, is_burning, burned,
                      manual_ignition_expiration_grid, ticks, clock_time, loop>>]_vars

\* update_combustion has returned 0 for the fuel and MAX_TEMP for the
\* temperature of a burning cell, and has left a negative fuel and a
\* temperature above MAX_TEMP in the arrays passed to it.
C24_Witness ==
    /\ Returned("update_combustion")
    /\ call.args.is_burning
    /\ call.args.fuel_level = 0
    /\ call.args.temperature = MAX_TEMP
    /\ call.passed[1][1].fuel_level < 0
    /\ call.passed[1][1].temperature > MAX_TEMP
    /\ call.result[1][1].fuel_level = 0
    /\ call.result[1][1].temperature = MAX_TEMP

\* The committed cell fields a tick of the given duration leaves when the
\* burning mask stored by the iteration before is stored_flags.
CommittedFrom(stored_flags, elapsed) ==
    LET l == Combust(Ignite(Conduct(ForceOverlay(
                 [Extract(elapsed) EXCEPT !.is_burning_grid = stored_flags], ticks + elapsed))))
    IN  <<l.temp_grid, l.fuel_grid, l.oxygen_grid, l.is_burning_grid, l.burned_grid>>

\* C25: the committed state of a tick does not depend on the is_burning flags
\* committed before it: from the same temperatures, fuels, oxygens, burned
\* flags, materials and overlay, with the same tick duration and the same now,
\* the tick commits the same cell fields whatever burning flags were stored.
C25_StoredBurningIgnored ==
    [][(ticks' # ticks) =>
          \A stored_flags \in {Full(NRows(material), NCols(material), FALSE),
                                Full(NRows(material), NCols(material), TRUE)} :
              CommittedFrom(stored_flags, clock_time') =
                  <<temperature', fuel_level', oxygen_rate', is_burning', burned'>>]_vars

\* A tick that started with some cells stored burning and others not, and has
\* committed burning flags that differ from the stored ones.
C25_Witness ==
    /\ history.frames >= 1
    /\ \E rc \in AllCells : At(history.is_burning, rc)
    /\ \E rc \in AllCells : ~At(history.is_burning, rc)
    /\ \E rc \in AllCells : At(history.is_burning, rc) # At(is_burning, rc)

\* C26: in a tick in which the overlay of a cell is live, the cell being of
\* GRASS, WOOD or FUEL and not burned before the tick (tick duration at most
\* 0.02 s, cells of 10 x 10), the cell is in the mask update_ignition returns,
\* and it is committed burning or burned, never unignited.
C26_LiveOverlayIgnites ==
    \A rc \in AllCells :
        (/\ history.frames >= 1
         /\ At(loop.mask, rc)
         /\ At(material, rc) \in {"GRASS", "WOOD", "FUEL"}
         /\ ~At(history.burned, rc)) =>
            /\ loop.delta_time <= DELTA_TIME_CAP
            /\ At(history.ignited, rc)
            /\ At(is_burning, rc) \/ At(burned, rc)

\* The first tick after a click on a FUEL cell between two WATER cells: the
\* cell was not burning, its overlay is live, and it is committed burning.
C26_Witness ==
    \E rc \in AllCells :
        /\ history.frames >= 1
        /\ At(loop.mask, rc)
        /\ At(material, rc) = "FUEL"
        /\ Cardinality({n \in Neighbours(material, rc) : At(material, n) = "WATER"}) = 2
        /\ ~At(history.is_burning, rc)
        /\ ~At(history.burned, rc)
        /\ At(history.ignited, rc)
        /\ At(is_burning, rc)

ShortOfFuel ==
    /\ Returned("update_combustion")
    /\ call.args.is_burning
    /\ call.args.fuel_level < CallMaterial.burn_rate * call.args.delta_time * 1000

\* C28 as claimed: in update_combustion the heat released and the oxygen
\* removed follow the fuel actually removed; a cell of the burning mask with
\* less fuel than burn_rate * tick duration is heated and loses oxygen by less
\* than a cell with enough fuel, and one with fuel 0 keeps its temperature and
\* its oxygen.
C28_HeatFromFuelRemoved ==
    ShortOfFuel =>
        /\ call.args.fuel_level = 0 =>
              /\ call.result[1][1].temperature = call.args.temperature
              /\ call.result[1][1].oxygen_rate = call.args.oxygen_rate
        /\ call.args.temperature < MAX_TEMP =>
              call.result[1][1].temperature <
                  Min(MAX_TEMP,
                      call.args.temperature
                        + ((CallMaterial.burn_rate * call.args.delta_time
                              * CallMaterial.combustion_heat * 10000)
                           \div (CallMaterial.density * CallMaterial.thermal_capacity)))

\* C28 as amended: in update_combustion the heat released and the oxygen
\* removed follow burn_rate * tick duration, whatever fuel the cell holds: a
\* cell of the burning mask with less fuel than burn_rate * tick duration
\* (0 included) is heated by (burn_rate * tick duration * combustion_heat *
\* 1e7) / (density * thermal_capacity * 1e3), up to MAX_TEMP, and loses
\* burn_rate * tick duration * 10 * tick duration of oxygen, down to 0, as a
\* cell with enough fuel does; it is returned with fuel 0, not burning and
\* burned.
C28_HeatFromNominalConsumption ==
    ShortOfFuel =>
        /\ call.result[1][1].temperature =
              Min(MAX_TEMP,
                  call.args.temperature
                    + ((CallMaterial.burn_rate * call.args.delta_time
                          * CallMaterial.combustion_heat * 10000)
                       \div (CallMaterial.density * CallMaterial.thermal_capacity)))
        /\ call.result[1][1].oxygen_rate =
              Max(0, call.args.oxygen_rate
                        - CallMaterial.burn_rate * call.args.delta_time * call.args.delta_time)
        /\ call.result[1][1].fuel_level = 0
        /\ ~call.result[1][1].is_burning
        /\ call.result[1][1].burned

\* A WOOD cell of the mask without fuel, at 400 degrees and with full
\* oxygen, returned hotter and with less oxygen.
C28_Witness ==
    /\ ShortOfFuel
    /\ call.args.material = "WOOD"
    /\ call.args.fuel_level = 0
    /\ call.args.temperature = 400000
    /\ call.args.oxygen_rate = INITIAL_OXYGEN
    /\ call.result[1][1].temperature > 400000
    /\ call.result[1][1].oxygen_rate < INITIAL_OXYGEN

RECURSIVE SumSeq(_)
SumSeq(q) == IF q = <<>> THEN 0 ELSE Head(q) + SumSeq(Tail(q))

\* The sum over the cells of thermal_capacity * (temperature after the
\* pairwise updates - temperature at entry), in 1e-5.
HeatGained(temp_grid, updated, material_grid) ==
    SumSeq([r \in 1..NRows(temp_grid) |->
               SumSeq([c \in 1..NCols(temp_grid) |->
                          Material[material_grid[r][c]].thermal_capacity
                              * (updated[r][c] - temp_grid[r][c])])])

\* The pairs of neighbours of a grid, and the heat that rounding a pair's
\* two temperature changes to 1/1000 degree can leave unaccounted for.
PairCount(temp_grid) ==
    NRows(temp_grid) * (NCols(temp_grid) - 1) + NCols(temp_grid) * (NRows(temp_grid) - 1)
RoundingPerPair == Material["WATER"].thermal_capacity

\* C29: before its final clamp heat_conduction conserves capacity-weighted
\* heat: the sum over the cells of thermal_capacity * temperature is the same
\* after the pairwise updates as before, for every grid, conductivity field
\* and tick duration (to the rounding of the temperature changes, less than
\* 1/1000 degree for each cell of each pair).
C29_HeatConserved ==
    Returned("heat_conduction") =>
        Abs(HeatGained(call.args.temp_grid, call.trace.updated, call.args.material_grid))
            < PairCount(call.args.temp_grid) * RoundingPerPair

\* Heat has moved between cells of four materials with different
\* capacities, and the clamp that follows has changed a temperature.
C29_Witness ==
    /\ Returned("heat_conduction")
    /\ Cardinality({At(call.args.material_grid, rc) : rc \in Indices(call.args.material_grid)}) = 4
    /\ \A rc \in Indices(call.args.temp_grid) :
          At(call.trace.updated, rc) # At(call.args.temp_grid, rc)
    /\ call.result # call.trace.updated
    /\ \E rc \in Indices(call.args.temp_grid) :
          Abs(At(call.trace.updated, rc) - At(call.args.temp_grid, rc)) > 100000

\* A cell and its in-grid right, left, lower and upper neighbours.
Neighbourhood(temp_grid, rc) == Neighbours(temp_grid, rc) \cup {rc}

\* C30: with the tick duration capped at 0.02 s, cells of 10 x 10 and the
\* materials of the registry, conduction creates no new extremum: for a grid
\* with temperatures in [MIN_TEMP, MAX_TEMP], the temperature heat_conduction
\* returns for a cell lies between the lowest and the highest of the
\* temperatures at entry of the cell and its in-grid axis-aligned neighbours.
C30_NoNewExtremum ==
    (/\ Returned("heat_conduction")
     /\ call.args.delta_time <= DELTA_TIME_CAP
     /\ InRange(call.args.temp_grid)) =>
        \A rc \in Indices(call.args.temp_grid) :
            /\ \E n \in Neighbourhood(call.args.temp_grid, rc) :
                  At(call.args.temp_grid, n) <= At(call.result, rc)
            /\ \E n \in Neighbourhood(call.args.temp_grid, rc) :
                  At(call.args.temp_grid, n) >= At(call.result, rc)

\* A WOOD cell at MIN_TEMP with four WATER neighbours at MAX_TEMP, after a
\* tick of 0.02 s: warmer than it was, and far cooler than its neighbours,
\* which have cooled.
C30_Witness ==
    /\ Returned("heat_conduction")
    /\ call.args.delta_time = DELTA_TIME_CAP
    /\ call.args.temp_grid = Centre(MIN_TEMP, MAX_TEMP)
    /\ call.args.material_grid = Centre("WOOD", "WATER")
    /\ call.result[2][2] > MIN_TEMP
    /\ call.result[2][2] < MAX_TEMP \div 2
    /\ \A n \in Neighbours(call.args.temp_grid, <<2, 2>>) : At(call.result, n) < MAX_TEMP

====
